---------------------------- MODULE Spec2Model ----------------------------
(***************************************************************************)
(* The hybrid recommender of models/hybrid.ipynb: the collaborative        *)
(* scorer, the content scorer and the blend of the two.                    *)
(*                                                                         *)
(* Floats are modelled as exact fractions [n, d] in lowest terms, and the  *)
(* float NaN (the result of 0/0) as the value NaN.  A pandas Series is a   *)
(* sequence of [id, val] entries: its index labels and its values, in the  *)
(* order pandas holds them.  Sorting is stable, as numpy's default sort is *)
(* on arrays of fewer than 17 elements (insertion sort), which every array *)
(* of the model is.                                                        *)
(***************************************************************************)
EXTENDS Integers, Sequences, FiniteSets, TLC

(***************************************************************************)
(* Bounds of the model.  The notebook calls the helpers with a history of  *)
(* 20 videos, 10 similar videos per video, nb_top_similar = 10 and 50      *)
(* collaborative candidates; the model scales these four windows down so   *)
(* that a table of a few rows already overflows each of them.              *)
(***************************************************************************)
MaxUserId == 2
MaxVideoId == 3
MaxRatio == 1
MaxRows == 3
MaxSim == 2
MaxShift == 1
MaxRes == 3
WeightDen == 2
HistoryLen == 2
SimilarLen == 1
NbTopSimilar == 3
CollabLen == 2

UserIds == 0..MaxUserId
VideoIds == 1..MaxVideoId
Ratios == 0..MaxRatio

(***************************************************************************)
(* Exact arithmetic standing for float64.                                  *)
(***************************************************************************)
RECURSIVE Gcd(_, _)
Gcd(a, b) == IF b = 0 THEN a ELSE Gcd(b, a % b)

NaN == [n |-> 0, d |-> 0]

Frac(n, d) ==
    IF d = 0 THEN NaN
    ELSE LET g == Gcd(n, d) IN [n |-> n \div g, d |-> d \div g]

Zero == Frac(0, 1)
One == Frac(1, 1)

IsNaN(x) == x.d = 0

FAdd(x, y) == IF IsNaN(x) \/ IsNaN(y) THEN NaN
              ELSE Frac(x.n * y.d + y.n * x.d, x.d * y.d)

FMul(x, y) == IF IsNaN(x) \/ IsNaN(y) THEN NaN
              ELSE Frac(x.n * y.n, x.d * y.d)

\* x / y in float64: 0/0 is NaN (the model's values are never negative, and a
\* positive value is never divided by 0: the divisor is a maximum).
FDiv(x, y) == IF IsNaN(x) \/ IsNaN(y) \/ y.n = 0 THEN NaN
              ELSE Frac(x.n * y.d, x.d * y.n)

FSub(x, y) == IF IsNaN(x) \/ IsNaN(y) THEN NaN
              ELSE Frac(x.n * y.d - y.n * x.d, x.d * y.d)

\* x <= y on numbers (false when either is NaN, as in IEEE 754).
FLeq(x, y) == ~IsNaN(x) /\ ~IsNaN(y) /\ x.n * y.d <= y.n * x.d

FLess(x, y) == ~IsNaN(x) /\ ~IsNaN(y) /\ x.n * y.d < y.n * x.d

(***************************************************************************)
(* Sequences and Series.                                                   *)
(***************************************************************************)
Range(s) == {s[i] : i \in DOMAIN s}

Reverse(s) == [i \in 1..Len(s) |-> s[Len(s) + 1 - i]]

\* Mutant of Take: s.tail(k) where s.head(k) is meant.
TakeTail(s, k) == IF k >= Len(s) THEN s ELSE SubSeq(s, Len(s) - k + 1, Len(s))

\* s.head(k)
Take(s, k) == IF k >= Len(s) THEN s ELSE SubSeq(s, 1, k)

RECURSIVE Filter(_, _)
Filter(s, keep) ==
    IF s = <<>> THEN <<>>
    ELSE IF Head(s).id \in keep THEN <<Head(s)>> \o Filter(Tail(s), keep)
         ELSE Filter(Tail(s), keep)

Ids(s) == {s[i].id : i \in DOMAIN s}

IdSeq(s) == [i \in DOMAIN s |-> s[i].id]

\* The value of label k in Series s (k is in the index of s).
ValueAt(s, k) == (CHOOSE e \in Range(s) : e.id = k).val

\* The ascending sequence of a finite set of integers (a sorted pandas Index).
RECURSIVE SortedSeq(_)
SortedSeq(S) ==
    IF S = {} THEN <<>>
    ELSE LET m == CHOOSE x \in S : \A y \in S : x <= y
         IN <<m>> \o SortedSeq(S \ {m})

\* One step of the insertion sort: e goes behind every entry that is not
\* smaller than it, so that equal entries keep the order they arrived in.
RECURSIVE InsertDesc(_, _)
InsertDesc(e, s) ==
    IF s = <<>> THEN <<e>>
    ELSE IF FLess(Head(s).val, e.val) THEN <<e>> \o s
         ELSE <<Head(s)>> \o InsertDesc(e, Tail(s))

RECURSIVE SortNumbersDesc(_)
SortNumbersDesc(s) ==
    IF s = <<>> THEN <<>>
    ELSE InsertDesc(s[Len(s)], SortNumbersDesc(SubSeq(s, 1, Len(s) - 1)))

RECURSIVE KeepNaN(_, _)
KeepNaN(s, nan) ==
    IF s = <<>> THEN <<>>
    ELSE IF IsNaN(Head(s).val) = nan THEN <<Head(s)>> \o KeepNaN(Tail(s), nan)
         ELSE KeepNaN(Tail(s), nan)

\* Series.sort_values(ascending=False): the numbers in descending order, equal
\* ones in their former order, and the NaN entries last in their former order.
SortValuesDesc(s) == SortNumbersDesc(KeepNaN(s, FALSE)) \o KeepNaN(s, TRUE)

\* Series.max(): the largest number, NaN entries skipped (s has a number).
SeriesMax(s) ==
    LET nums == {e.val : e \in Range(KeepNaN(s, FALSE))}
    IN CHOOSE m \in nums : \A x \in nums : FLeq(x, m)


(***************************************************************************)
(* The notebook's module-level state, and the last call and its outcome.   *)
(***************************************************************************)
VARIABLES
    interactions,             \* the interaction table: rows [user_id, video_id, watch_ratio]
    categories,               \* the item table: rows [label, video_id, feat], label the row's index label
    user_item_matrix,         \* the pivot of interactions
    user_similarity,          \* the user x user similarity array, by row position
    content_based_cosine_sim, \* the item x item similarity array, by row position
    test_df,                  \* the evaluation table, rows as in interactions
    total_features,           \* the number of distinct features of the item table
    call,                     \* the last call: [fn, ...] with its arguments
    result                    \* its outcome: [err, ...] with the value returned

vars == <<interactions, categories, user_item_matrix, user_similarity,
          content_based_cosine_sim, test_df, total_features, call, result>>

Ok(s) == [err |-> "none", series |-> s]
Raise(e) == [err |-> e, series |-> <<>>]

(***************************************************************************)
(* Collaborative filtering.                                                *)
(***************************************************************************)
\* interactions.pivot_table(index="user_id", columns="video_id",
\*     values="watch_ratio", aggfunc="max", fill_value=0)
PivotTable(rows) ==
    LET users == {rows[i].user_id : i \in DOMAIN rows}
        videos == {rows[i].video_id : i \in DOMAIN rows}
        cell(u, v) ==
            LET rs == {rows[i].watch_ratio : i \in
                         {j \in DOMAIN rows : rows[j].user_id = u /\ rows[j].video_id = v}}
            IN IF rs = {} THEN 0 ELSE CHOOSE m \in rs : \A r \in rs : r <= m
    IN [index |-> SortedSeq(users),
        columns |-> SortedSeq(videos),
        values |-> [u \in users |-> [v \in videos |-> cell(u, v)]]]

RECURSIVE SumOver(_, _)
SumOver(f, s) == IF s = <<>> THEN 0 ELSE f[Head(s)] + SumOver(f, Tail(s))

\* cosine_similarity(user_item_matrix), squared: the array's entries are never
\* negative and only their order is read, and the square of a cosine is a
\* fraction of integers.  A row of zeros has similarity 0 with every row.
CosineSimilarity(m) ==
    LET n == Len(m.index)
        row(p) == m.values[m.index[p + 1]]
        dot(p, q) == SumOver([v \in Range(m.columns) |-> row(p)[v] * row(q)[v]], m.columns)
    IN [p \in 0..(n - 1) |-> [q \in 0..(n - 1) |->
           IF dot(p, p) = 0 \/ dot(q, q) = 0 THEN Zero
           ELSE Frac(dot(p, q) * dot(p, q), dot(p, p) * dot(q, q))]]

\* a.argsort()[:-nb:-1] for a row a of n entries: the positions by ascending
\* value read backwards from the last one, stopping before the one at -nb.
ArgsortTail(a, nb) ==
    LET n == Cardinality(DOMAIN a)
        asSeries == [i \in 1..n |-> [id |-> i - 1, val |-> a[i - 1]]]
        backwards == IdSeq(SortValuesDesc(Reverse(asSeries)))
    IN Take(backwards, IF nb <= n THEN nb - 1 ELSE n)

\* Mutant of recommend_videos_by_users: the rows are read by position
\* (.iloc) where the code reads them by label (.loc), so that no lookup of an
\* id that is a valid position fails.
recommend_videos_by_users_by_position(user_id, nb_top_similar, res_length) ==
    LET n == Len(user_item_matrix.index)
        pos == IF user_id < 0 THEN user_id + n ELSE user_id
        at(p) == user_item_matrix.values[user_item_matrix.index[p + 1]]
        similar_users == ArgsortTail(user_similarity[pos], nb_top_similar)
        mean(v) == Frac(SumOver([p \in Range(similar_users) |-> at(p)[v]], similar_users),
                        Len(similar_users))
        cols == user_item_matrix.columns
        recommended_items ==
            SortValuesDesc([i \in DOMAIN cols |-> [id |-> cols[i], val |-> mean(cols[i])]])
        items_user_has_watched == {v \in Range(cols) : at(pos)[v] # 0}
    IN IF pos < 0 \/ pos >= n THEN Raise("IndexError")
       ELSE Ok(Take(Filter(recommended_items, Range(cols) \ items_user_has_watched),
                    res_length))

\* Mutant of recommend_videos_by_users: the videos the user has watched are
\* not removed from the list.
recommend_videos_by_users_unfiltered(user_id, nb_top_similar, res_length) ==
    LET n == Len(user_item_matrix.index)
        known == Range(user_item_matrix.index)
        pos == IF user_id < 0 THEN user_id + n ELSE user_id
        similar_users == ArgsortTail(user_similarity[pos], nb_top_similar)
        mean(v) == Frac(SumOver([u \in Range(similar_users) |->
                                    user_item_matrix.values[u][v]], similar_users),
                        Len(similar_users))
        cols == user_item_matrix.columns
        recommended_items ==
            SortValuesDesc([i \in DOMAIN cols |-> [id |-> cols[i], val |-> mean(cols[i])]])
    IN IF pos < 0 \/ pos >= n THEN Raise("IndexError")
       ELSE IF ~(Range(similar_users) \subseteq known) THEN Raise("KeyError")
       ELSE IF user_id \notin known THEN Raise("KeyError")
       ELSE Ok(Take(recommended_items, res_length))

recommend_videos_by_users(user_id, nb_top_similar, res_length) ==
    LET n == Len(user_item_matrix.index)
        known == Range(user_item_matrix.index)
        pos == IF user_id < 0 THEN user_id + n ELSE user_id
        similar_users == ArgsortTail(user_similarity[pos], nb_top_similar)
        mean(v) == Frac(SumOver([u \in Range(similar_users) |->
                                    user_item_matrix.values[u][v]], similar_users),
                        Len(similar_users))
        cols == user_item_matrix.columns
        recommended_items ==
            SortValuesDesc([i \in DOMAIN cols |-> [id |-> cols[i], val |-> mean(cols[i])]])
        items_user_has_watched ==
            {v \in Range(cols) : user_item_matrix.values[user_id][v] # 0}
    IN IF pos < 0 \/ pos >= n THEN Raise("IndexError")
       ELSE IF ~(Range(similar_users) \subseteq known) THEN Raise("KeyError")
       ELSE IF user_id \notin known THEN Raise("KeyError")
       ELSE Ok(Take(Filter(recommended_items, Range(cols) \ items_user_has_watched),
                    res_length))

(***************************************************************************)
(* Content-based filtering.                                                *)
(***************************************************************************)
recommend_similar_videos(video_id, res_length) ==
    LET n == Len(categories)
        matching == {i \in DOMAIN categories : categories[i].video_id = video_id}
        idx == categories[CHOOSE i \in matching : \A j \in matching : i <= j].label
        \* list(enumerate(content_based_cosine_sim[idx]))
        enumerated == [i \in 1..n |->
                         [id |-> i - 1,
                          val |-> Frac(content_based_cosine_sim[idx][i - 1], MaxSim)]]
        \* sorted(..., reverse=True)[1:res_length+1]
        sim_scores == Take(Tail(SortValuesDesc(enumerated)), res_length)
    IN IF matching = {} THEN Raise("IndexError")
       ELSE IF idx >= n THEN Raise("IndexError")
       ELSE Ok([i \in DOMAIN sim_scores |->
                   [id |-> categories[sim_scores[i].id + 1].video_id,
                    val |-> sim_scores[i].val]])

(***************************************************************************)
(* Hybrid filtering.                                                       *)
(***************************************************************************)
\* Mutant of get_most_watched_videos_by_user_id: the rows are taken in the
\* order of the table, without the sort.
get_most_watched_videos_by_user_id_unsorted(df, user_id, head_count) ==
    Take(SelectSeq(df, LAMBDA row : row.user_id = user_id), head_count)

get_most_watched_videos_by_user_id(df, user_id, head_count) ==
    LET mine == SelectSeq([i \in DOMAIN df |-> [id |-> i, val |-> Frac(df[i].watch_ratio, 1)]],
                          LAMBDA e : df[e.id].user_id = user_id)
        sorted == Take(SortValuesDesc(mine), head_count)
    IN [i \in DOMAIN sorted |-> df[sorted[i].id]]

\* The index of a.add(b): pandas keeps the index when both are equal or one
\* is empty, and takes the sorted union otherwise.
JoinIndex(a, b) ==
    IF IdSeq(a) = IdSeq(b) \/ b = <<>> THEN IdSeq(a)
    ELSE IF a = <<>> THEN IdSeq(b)
    ELSE SortedSeq(Ids(a) \cup Ids(b))

\* a.add(b, fill_value=0): a label missing on one side, or NaN on one side
\* only, counts 0 there; NaN (or missing) on both sides gives NaN.
SeriesAdd(a, b) ==
    LET at(s, k) == IF k \in Ids(s) THEN ValueAt(s, k) ELSE NaN
        sum(x, y) == IF IsNaN(x) /\ IsNaN(y) THEN NaN
                     ELSE IF IsNaN(x) THEN FAdd(Zero, y)
                     ELSE IF IsNaN(y) THEN FAdd(x, Zero)
                     ELSE FAdd(x, y)
        idx == JoinIndex(a, b)
    IN [i \in DOMAIN idx |-> [id |-> idx[i], val |-> sum(at(a, idx[i]), at(b, idx[i]))]]

\* s.mul(w)
SeriesMul(s, w) == [i \in DOMAIN s |-> [id |-> s[i].id, val |-> FMul(s[i].val, w)]]

\* if not s.empty: s /= s.max()
Normalize(s) ==
    IF s = <<>> THEN s
    ELSE [i \in DOMAIN s |-> [id |-> s[i].id, val |-> FDiv(s[i].val, SeriesMax(s))]]

\* The loop over user_history: content_scores after the videos of `history`,
\* or the error of the first recommend_similar_videos call that raises.
RECURSIVE ContentScores(_, _)
ContentScores(history, acc) ==
    IF history = <<>> THEN Ok(acc)
    ELSE LET similar_videos == recommend_similar_videos(Head(history), SimilarLen)
         IN IF similar_videos.err # "none" THEN similar_videos
            ELSE ContentScores(Tail(history), SeriesAdd(acc, similar_videos.series))

UserHistory(user_id) ==
    LET top == get_most_watched_videos_by_user_id(interactions, user_id, HistoryLen)
    IN [i \in DOMAIN top |-> top[i].video_id]

\* combined_scores before the history is dropped and the result is sorted.
CombinedScores(content_scores, collab_scores, content_weight) ==
    SeriesAdd(SeriesMul(Normalize(content_scores), content_weight),
              SeriesMul(Normalize(collab_scores), FSub(One, content_weight)))

\* combined_scores.drop(labels=user_history, errors='ignore')
DropLabels(s, labels) == Filter(s, Ids(s) \ labels)

\* Mutant of recommmend_videos_for_user: drop(labels=user_history) without
\* errors='ignore', which raises when a history video has no combined score.
recommmend_videos_for_user_strict_drop(user_id, content_weight, res_length) ==
    LET collab_scores == recommend_videos_by_users(user_id, NbTopSimilar, CollabLen)
        user_history == UserHistory(user_id)
        content_scores == ContentScores(user_history, <<>>)
        combined == CombinedScores(content_scores.series, collab_scores.series,
                                   content_weight)
    IN IF collab_scores.err # "none" THEN collab_scores
       ELSE IF content_scores.err # "none" THEN content_scores
       ELSE IF ~(Range(user_history) \subseteq Ids(combined)) THEN Raise("KeyError")
       ELSE Ok(Take(SortValuesDesc(DropLabels(combined, Range(user_history))),
                    res_length))

\* Mutant of recommmend_videos_for_user: a failure of the content loop is
\* caught and the list is built from the collaborative component alone.
recommmend_videos_for_user_catching_failures(user_id, content_weight, res_length) ==
    LET collab_scores == recommend_videos_by_users(user_id, NbTopSimilar, CollabLen)
        user_history == UserHistory(user_id)
        content_scores == ContentScores(user_history, <<>>)
        combined_scores == DropLabels(
            CombinedScores(content_scores.series, collab_scores.series, content_weight),
            Range(user_history))
    IN IF collab_scores.err # "none" THEN collab_scores
       ELSE Ok(Take(SortValuesDesc(combined_scores), res_length))

\* Mutant of recommmend_videos_for_user: the collaborative list is asked for
\* every column of the user-item matrix, not for its 50 first entries.
recommmend_videos_for_user_uncapped(user_id, content_weight, res_length) ==
    LET collab_scores == recommend_videos_by_users(user_id, NbTopSimilar,
                                                   Len(user_item_matrix.columns))
        user_history == UserHistory(user_id)
        content_scores == ContentScores(user_history, <<>>)
        combined_scores == DropLabels(
            CombinedScores(content_scores.series, collab_scores.series, content_weight),
            Range(user_history))
    IN IF collab_scores.err # "none" THEN collab_scores
       ELSE IF content_scores.err # "none" THEN content_scores
       ELSE Ok(Take(SortValuesDesc(combined_scores), res_length))

recommmend_videos_for_user(user_id, content_weight, res_length) ==
    LET collab_scores == recommend_videos_by_users(user_id, NbTopSimilar, CollabLen)
        user_history == UserHistory(user_id)
        content_scores == ContentScores(user_history, <<>>)
        combined_scores == DropLabels(
            CombinedScores(content_scores.series, collab_scores.series, content_weight),
            Range(user_history))
    IN IF collab_scores.err # "none" THEN collab_scores
       ELSE IF content_scores.err # "none" THEN content_scores
       ELSE Ok(Take(SortValuesDesc(combined_scores), res_length))

(***************************************************************************)
(* Evaluation.  A Python number is a fraction as above; a division by zero *)
(* of two Python numbers raises ZeroDivisionError.                         *)
(***************************************************************************)
Returns(v) == [err |-> "none", val |-> v]
Fails(e) == [err |-> e]

\* x / y
PyDiv(x, y) == IF y.n = 0 THEN Fails("ZeroDivisionError") ELSE Returns(FDiv(x, y))

\* videos is a sequence of video ids; .values[0] raises IndexError for a video
\* without a row in categories.
get_features_of_videos(videos) ==
    LET rows(v) == {i \in DOMAIN categories : categories[i].video_id = v}
        feats(v) == categories[CHOOSE i \in rows(v) : \A j \in rows(v) : i <= j].feat
    IN IF \E k \in DOMAIN videos : rows(videos[k]) = {} THEN Fails("IndexError")
       ELSE Returns(UNION {feats(videos[k]) : k \in DOMAIN videos})

\* Mutant of precision_at_k: the division is by the number of recommended
\* elements, not by k.
precision_at_k_by_length(recommended, relevant, k) ==
    PyDiv(Frac(Cardinality(recommended \cap relevant), 1),
          Frac(Cardinality(recommended), 1))

precision_at_k(recommended, relevant, k) ==
    LET relevant_items_in_top_k == Cardinality(recommended \cap relevant)
    IN PyDiv(Frac(relevant_items_in_top_k, 1), Frac(k, 1))

\* Mutant of recall_at_k: no test of len(relevant) > 0.
recall_at_k_unguarded(recommended, relevant) ==
    PyDiv(Frac(Cardinality(recommended \cap relevant), 1),
          Frac(Cardinality(relevant), 1))

recall_at_k(recommended, relevant) ==
    LET relevant_items_in_top_k == Cardinality(recommended \cap relevant)
    IN IF Cardinality(relevant) > 0
       THEN PyDiv(Frac(relevant_items_in_top_k, 1), Frac(Cardinality(relevant), 1))
       ELSE Returns(Zero)

\* Mutant of f1_score_at_k: no test of precision + recall == 0.
f1_score_at_k_unguarded(precision, recall) ==
    PyDiv(FMul(Frac(2, 1), FMul(precision, recall)), FAdd(precision, recall))

f1_score_at_k(precision, recall) ==
    IF FAdd(precision, recall) = Zero THEN Returns(Zero)
    ELSE PyDiv(FMul(Frac(2, 1), FMul(precision, recall)), FAdd(precision, recall))

\* Mutant of hit_ratio_at_k: 1 when recommended is not empty.
hit_ratio_at_k_of_recommended(recommended, relevant) ==
    Returns(IF Cardinality(recommended) > 0 THEN 1 ELSE 0)

hit_ratio_at_k(recommended, relevant) ==
    Returns(IF Cardinality(recommended \cap relevant) > 0 THEN 1 ELSE 0)

\* Mutant of coverage_at_k: the division is by the number of rows of the item
\* table, not by the number of features.
coverage_at_k_by_rows(recommended, total) ==
    PyDiv(Frac(Cardinality(recommended), 1), Frac(Len(categories), 1))

coverage_at_k(recommended, total) ==
    PyDiv(Frac(Cardinality(recommended), 1), Frac(total, 1))

\* metrics(K).  The cell evaluates user 14 with content_weight 0.3; the model
\* evaluates every user and weight.  The outcome is the five values printed,
\* or the first error raised.
metrics(user_id, content_weight, K) ==
    LET recommended_videos == recommmend_videos_for_user(user_id, content_weight, K)
        recommended_features == get_features_of_videos(IdSeq(recommended_videos.series))
        most_watched_videos == get_most_watched_videos_by_user_id(test_df, user_id, K)
        favorite_videos_features ==
            get_features_of_videos([i \in DOMAIN most_watched_videos |->
                                       most_watched_videos[i].video_id])
        precision == precision_at_k(recommended_features.val,
                                    favorite_videos_features.val, K)
        recall == recall_at_k(recommended_features.val, favorite_videos_features.val)
        f1_score == f1_score_at_k(precision.val, recall.val)
        hit_ratio == hit_ratio_at_k(recommended_features.val, favorite_videos_features.val)
        coverage == coverage_at_k(recommended_features.val, total_features)
    IN IF recommended_videos.err # "none" THEN Fails(recommended_videos.err)
       ELSE IF recommended_features.err # "none" THEN recommended_features
       ELSE IF favorite_videos_features.err # "none" THEN favorite_videos_features
       ELSE IF precision.err # "none" THEN precision
       ELSE IF recall.err # "none" THEN recall
       ELSE IF f1_score.err # "none" THEN f1_score
       ELSE IF coverage.err # "none" THEN coverage
       ELSE [err |-> "none",
             recommended |-> recommended_features.val,
             relevant |-> favorite_videos_features.val,
             precision |-> precision.val, recall |-> recall.val,
             f1_score |-> f1_score.val, hit_ratio |-> hit_ratio.val,
             coverage |-> coverage.val]

(***************************************************************************)
(* The data the notebook can hold after its loading cells.                 *)
(***************************************************************************)
Rows == [user_id : UserIds, video_id : VideoIds, watch_ratio : Ratios]

RowBefore(a, b) ==
    \/ a.user_id < b.user_id
    \/ a.user_id = b.user_id /\ a.video_id < b.video_id
    \/ a.user_id = b.user_id /\ a.video_id = b.video_id /\ a.watch_ratio < b.watch_ratio

\* Tables of at most MaxRows distinct rows, in the order of the file (by user,
\* then video); a (user, video) pair may have several rows.
InteractionTables ==
    UNION {{t \in [1..k -> Rows] : \A i \in 1..(k - 1) : RowBefore(t[i], t[i + 1])}
           : k \in 1..MaxRows}

\* The item table after dropna / drop_duplicates: the videos 1..n in ascending
\* order, `shift` raw rows dropped ahead of them, so that every label is the
\* row's position plus `shift`; feat[p] is the set of the features in the feat
\* list of the row at position p.
CategoryTable(n, shift, feat) ==
    [i \in 1..n |-> [label |-> i - 1 + shift, video_id |-> i, feat |-> feat[i - 1]]]

\* The tokens TfidfVectorizer reads in a feat list: its default token pattern
\* keeps the words of two characters or more, so a feature below 10 gives none.
Tokens(feat) == {f \in feat : f >= 10}

\* linear_kernel over L2-normalised TF-IDF rows: symmetric, a row without a
\* token is 0 everywhere, any other row has MaxSim (1.0) with itself, and two
\* rows with similarity 1.0 are the same vector.  fit_transform raises
\* ValueError on an empty vocabulary, so some row has a token.
SimilarityArrays(n) ==
    {m \in [0..(n - 1) -> [0..(n - 1) -> 0..MaxSim]] :
        /\ \E p \in 0..(n - 1) : m[p][p] = MaxSim
        /\ \A p, q \in 0..(n - 1) : m[p][q] = m[q][p]
        /\ \A p \in 0..(n - 1) : m[p][p] \in {0, MaxSim}
        /\ \A p, q \in 0..(n - 1) : m[p][p] = 0 => m[p][q] = 0
        /\ \A p, q \in 0..(n - 1) : p # q /\ m[p][q] = MaxSim => m[p] = m[q]}

\* Whether array m is the kernel of the feat lists of table t: two rows have
\* similarity 0 when they share no token, 1.0 when they have the same tokens,
\* and a value in between otherwise.
KernelOf(t, m) ==
    \A i, j \in DOMAIN t :
        LET a == Tokens(t[i].feat)
            b == Tokens(t[j].feat)
        IN IF a \cap b = {} THEN m[i - 1][j - 1] = 0
           ELSE IF a = b THEN m[i - 1][j - 1] = MaxSim
           ELSE m[i - 1][j - 1] \in 1..(MaxSim - 1)

\* Feat lists with kernel m: the rows with similarity 1.0 share their list, a
\* list holds one feature of its own and one feature per list it overlaps.
FeatOf(m) ==
    LET n == Cardinality(DOMAIN m)
        first(p) == CHOOSE c \in 0..(n - 1) :
                        /\ m[p][c] = MaxSim
                        /\ \A d \in 0..(n - 1) : m[p][d] = MaxSim => c <= d
        shared(c, d) == IF c <= d THEN 20 + n * c + d ELSE 20 + n * d + c
    IN [p \in 0..(n - 1) |->
          IF m[p][p] = 0 THEN {}
          ELSE {10 + first(p)} \cup
               {shared(first(p), first(q)) :
                    q \in {r \in 0..(n - 1) : m[p][r] \in 1..(MaxSim - 1)}}]

\* pd.Series([feat for feats in categories["feat"] for feat in feats]).nunique()
TotalFeatures(t) == Cardinality(UNION {t[i].feat : i \in DOMAIN t})

\* The tables and arrays above, evaluated once.
AllInteractionTables == InteractionTables
AllSimilarityArrays == [n \in 1..MaxVideoId |-> SimilarityArrays(n)]

Weights == {Frac(k, WeightDen) : k \in 0..WeightDen}

CallUserIds == (-1)..MaxUserId

NoCall == [fn |-> "none", user_id |-> 0, content_weight |-> Zero, res_length |-> 0]

\* Whether the user ids of table t are 0..n-1: the ids are then the row
\* positions of the pivot.
Contiguous(t) ==
    LET users == {t[i].user_id : i \in DOMAIN t}
    IN users = 0..(Cardinality(users) - 1)

\* Every table of fewer than MaxRows rows with every item table; the tables of
\* MaxRows rows with the item tables that hold every video under labels that
\* are the positions, and only the tables whose user ids are 0..n-1.  The
\* evaluation table is read by the last cell only and holds no row before.
Init ==
    /\ interactions \in AllInteractionTables
    /\ \E n \in 1..MaxVideoId, shift \in 0..MaxShift :
          /\ \/ Len(interactions) < MaxRows
             \/ Contiguous(interactions) /\ n = MaxVideoId /\ shift = 0
          /\ content_based_cosine_sim \in AllSimilarityArrays[n]
          /\ categories = CategoryTable(n, shift, FeatOf(content_based_cosine_sim))
    /\ user_item_matrix = PivotTable(interactions)
    /\ user_similarity = CosineSimilarity(user_item_matrix)
    /\ test_df = <<>>
    /\ total_features = TotalFeatures(categories)
    /\ call = NoCall
    /\ result = Ok(<<>>)

Data == <<interactions, categories, user_item_matrix, user_similarity,
          content_based_cosine_sim, test_df, total_features>>

\* Mutant of CallHybrid: the history is read with sort_values(inplace=True),
\* which leaves the interaction table sorted by watch_ratio.
CallHybridSortingInPlace ==
    \E u \in CallUserIds, w \in Weights, r \in 1..MaxRes :
        LET byRatio == SortValuesDesc([i \in DOMAIN interactions |->
                           [id |-> i, val |-> Frac(interactions[i].watch_ratio, 1)]])
        IN /\ call = NoCall
           /\ call' = [fn |-> "recommmend_videos_for_user", user_id |-> u,
                       content_weight |-> w, res_length |-> r]
           /\ result' = recommmend_videos_for_user(u, w, r)
           /\ interactions' = [i \in DOMAIN byRatio |-> interactions[byRatio[i].id]]
           /\ UNCHANGED <<categories, user_item_matrix, user_similarity,
                          content_based_cosine_sim, test_df, total_features>>

\* A call of recommmend_videos_for_user(user_id, content_weight, res_length).
\* The function and its helpers assign no global, and each in-place update
\* (/=) is on a Series built within the call.
CallHybrid ==
    \E u \in CallUserIds, w \in Weights, r \in 1..MaxRes :
        /\ call = NoCall
        /\ call' = [fn |-> "recommmend_videos_for_user", user_id |-> u,
                    content_weight |-> w, res_length |-> r]
        /\ result' = recommmend_videos_for_user(u, w, r)
        /\ UNCHANGED Data

\* A call of recommend_videos_by_users(user_id, nb_top_similar=10, res_length).
CallCollab ==
    \E u \in CallUserIds, r \in 1..MaxRes :
        /\ call = NoCall
        /\ call' = [fn |-> "recommend_videos_by_users", user_id |-> u,
                    content_weight |-> Zero, res_length |-> r]
        /\ result' = recommend_videos_by_users(u, NbTopSimilar, r)
        /\ UNCHANGED Data

\* A call of recommend_similar_videos(video_id, res_length).
CallSimilar ==
    \E v \in VideoIds, r \in 1..MaxRes :
        /\ call = NoCall
        /\ call' = [fn |-> "recommend_similar_videos", video_id |-> v, res_length |-> r]
        /\ result' = recommend_similar_videos(v, r)
        /\ UNCHANGED Data

\* The cell that made the call ends: its result is dropped.
Discard ==
    /\ call # NoCall
    /\ call' = NoCall
    /\ result' = Ok(<<>>)
    /\ UNCHANGED Data

Next == CallHybrid \/ CallCollab \/ CallSimilar \/ Discard

Spec == Init /\ [][Next]_vars

(***************************************************************************)
(* The evaluation cells: metrics(K) and the functions it calls, over a     *)
(* loaded evaluation table.                                                *)
(***************************************************************************)
\* The features of the item table: 1 gives no TF-IDF token, 10 gives one.
Features == {1, 10}

\* Item tables of fewer than MaxVideoId videos, one of which has a token.
FeatureTables ==
    UNION {{CategoryTable(n, 0, feat) :
               feat \in {g \in [0..(n - 1) -> SUBSET Features] :
                            \E p \in 0..(n - 1) : Tokens(g[p]) # {}}}
           : n \in 1..(MaxVideoId - 1)}

\* Interaction tables of two users with one watched video each.
TrainingTables ==
    {t \in AllInteractionTables :
        /\ Len(t) = 2 /\ t[1].user_id = 0 /\ t[2].user_id = 1
        /\ \A i \in DOMAIN t : t[i].watch_ratio > 0}

\* Evaluation tables of one or two rows of user 0.
EvaluationTables ==
    {t \in AllInteractionTables :
        Len(t) <= 2 /\ \A i \in DOMAIN t : t[i].user_id = 0}

\* The values a precision or a recall can take.
MetricValues == {Frac(a, b) : a \in 0..Cardinality(Features), b \in 1..MaxRes}

MetricsInit ==
    /\ interactions \in TrainingTables
    /\ test_df \in EvaluationTables
    /\ categories \in FeatureTables
    /\ content_based_cosine_sim \in
           {m \in AllSimilarityArrays[Len(categories)] : KernelOf(categories, m)}
    /\ user_item_matrix = PivotTable(interactions)
    /\ user_similarity = CosineSimilarity(user_item_matrix)
    /\ total_features = TotalFeatures(categories)
    /\ call = NoCall
    /\ result = Ok(<<>>)

\* metrics(K) for a user and a weight.
CallMetrics ==
    \E u \in UserIds, w \in Weights, K \in 1..MaxRes :
        /\ call = NoCall
        /\ call' = [fn |-> "metrics", user_id |-> u, content_weight |-> w, K |-> K]
        /\ result' = metrics(u, w, K)
        /\ UNCHANGED Data

CallPrecision ==
    \E recommended \in SUBSET Features, relevant \in SUBSET Features, k \in 0..MaxRes :
        /\ call = NoCall
        /\ call' = [fn |-> "precision_at_k", recommended |-> recommended,
                    relevant |-> relevant, k |-> k]
        /\ result' = precision_at_k(recommended, relevant, k)
        /\ UNCHANGED Data

CallRecall ==
    \E recommended \in SUBSET Features, relevant \in SUBSET Features :
        /\ call = NoCall
        /\ call' = [fn |-> "recall_at_k", recommended |-> recommended,
                    relevant |-> relevant]
        /\ result' = recall_at_k(recommended, relevant)
        /\ UNCHANGED Data

CallF1 ==
    \E precision \in MetricValues, recall \in MetricValues :
        /\ call = NoCall
        /\ call' = [fn |-> "f1_score_at_k", precision |-> precision, recall |-> recall]
        /\ result' = f1_score_at_k(precision, recall)
        /\ UNCHANGED Data

CallHitRatio ==
    \E recommended \in SUBSET Features, relevant \in SUBSET Features :
        /\ call = NoCall
        /\ call' = [fn |-> "hit_ratio_at_k", recommended |-> recommended,
                    relevant |-> relevant]
        /\ result' = hit_ratio_at_k(recommended, relevant)
        /\ UNCHANGED Data

CallCoverage ==
    \E recommended \in SUBSET Features, total \in 0..MaxRes :
        /\ call = NoCall
        /\ call' = [fn |-> "coverage_at_k", recommended |-> recommended,
                    total_features |-> total]
        /\ result' = coverage_at_k(recommended, total)
        /\ UNCHANGED Data

\* get_most_watched_videos_by_user_id(df, user_id, head_count) on either table.
CallMostWatched ==
    \E df \in {"interactions", "test_df"}, u \in UserIds, head_count \in 1..MaxRes :
        /\ call = NoCall
        /\ call' = [fn |-> "get_most_watched_videos_by_user_id", df |-> df,
                    user_id |-> u, head_count |-> head_count]
        /\ result' = Returns(get_most_watched_videos_by_user_id(
                                 IF df = "interactions" THEN interactions ELSE test_df,
                                 u, head_count))
        /\ UNCHANGED Data

MetricsNext ==
    \/ CallMetrics
    \/ CallPrecision
    \/ CallRecall
    \/ CallF1
    \/ CallHitRatio
    \/ CallCoverage
    \/ CallMostWatched
    \/ Discard

MetricsSpec == MetricsInit /\ [][MetricsNext]_vars

(***************************************************************************)
(* What the properties below speak of.                                     *)
(***************************************************************************)
HybridCall == call.fn = "recommmend_videos_for_user"
Returned == result.err = "none"
KnownUsers == Range(user_item_matrix.index)

\* The history of user u: every video u has an interaction row for.
History(u) == {interactions[i].video_id :
                 i \in {j \in DOMAIN interactions : interactions[j].user_id = u}}

\* The two components of the call in `call`, as the scorer builds them.
CollabComponent == recommend_videos_by_users(call.user_id, NbTopSimilar, CollabLen)
ContentComponent == ContentScores(UserHistory(call.user_id), <<>>)

\* The value of label k in Series s, 0 when s has no such label.
ValueOrZero(s, k) == IF k \in Ids(s) THEN ValueAt(s, k) ELSE Zero

Min(a, b) == IF a <= b THEN a ELSE b

(***************************************************************************)
(* C1: the list returned by recommmend_videos_for_user holds no video of   *)
(* the user's history, the history being every video the user has an       *)
(* interaction row for.                                                    *)
(***************************************************************************)
C1_NoHistoryItemReturned ==
    (HybridCall /\ Returned) =>
        Ids(result.series) \cap History(call.user_id) = {}

(***************************************************************************)
(* C2: every returned score is content_weight * content[i] +               *)
(* (1 - content_weight) * collaborative[i] over the normalized components, *)
(* a label missing from one component counting 0 there, and every label of *)
(* the union of the two components is a candidate.                         *)
(***************************************************************************)
C2_LinearCombination ==
    (HybridCall /\ Returned) =>
        LET content == Normalize(ContentComponent.series)
            collab == Normalize(CollabComponent.series)
            w == call.content_weight
            blend(k) == FAdd(FMul(w, ValueOrZero(content, k)),
                             FMul(FSub(One, w), ValueOrZero(collab, k)))
            candidates == (Ids(content) \cup Ids(collab)) \ Range(UserHistory(call.user_id))
        IN /\ \A i \in DOMAIN result.series :
                 result.series[i].val = blend(result.series[i].id)
           /\ Ids(result.series) \subseteq candidates
           /\ Len(result.series) = Min(call.res_length, Cardinality(candidates))

(***************************************************************************)
(* C3: with content_weight = 0 the returned ranking is the ranking of      *)
(* recommend_videos_by_users for the same user and res_length: the same    *)
(* videos in the same order.                                               *)
(***************************************************************************)
C3_WeightZeroIsCollaborative ==
    (HybridCall /\ Returned /\ call.content_weight = Zero) =>
        LET alone == recommend_videos_by_users(call.user_id, NbTopSimilar, call.res_length)
        IN alone.err = "none" /\ IdSeq(result.series) = IdSeq(alone.series)

(***************************************************************************)
(* C4: with content_weight = 1 the returned ranking is the ranking of the  *)
(* content component alone: the summed similarity scores of the user's     *)
(* source videos, less the user's history, in descending order, truncated  *)
(* to res_length.                                                          *)
(***************************************************************************)
C4_WeightOneIsContent ==
    (HybridCall /\ Returned /\ call.content_weight = One) =>
        IdSeq(result.series) =
            IdSeq(Take(SortValuesDesc(DropLabels(ContentComponent.series,
                                                 History(call.user_id))),
                       call.res_length))

(***************************************************************************)
(* C5: the list returned for res_length is a prefix of the list returned   *)
(* for every larger res_length with the same user, weight and data, equal  *)
(* scores included.                                                        *)
(***************************************************************************)
C5_PrefixUnderTruncation ==
    (HybridCall /\ Returned) =>
        \A longer \in (call.res_length + 1)..(MaxRes + 1) :
            LET more == recommmend_videos_for_user(call.user_id, call.content_weight, longer)
            IN /\ more.err = "none"
               /\ Len(result.series) = Min(call.res_length, Len(more.series))
               /\ result.series = SubSeq(more.series, 1, Len(result.series))

\* A call that returned one video where the next longer list has a second
\* video with the same score.
C5_Witness ==
    /\ HybridCall /\ Returned
    /\ call.res_length = 1
    /\ LET more == recommmend_videos_for_user(call.user_id, call.content_weight, 2)
       IN /\ Len(more.series) = 2
          /\ more.series[1].val = more.series[2].val
          /\ ~IsNaN(more.series[1].val)
          /\ IdSeq(result.series) = <<more.series[1].id>>

(***************************************************************************)
(* C6: the returned list is in non-increasing order of combined score, has *)
(* min(res_length, number of candidates left after the history removal)    *)
(* entries, and no candidate left out has a greater score than the last    *)
(* entry returned.                                                         *)
(***************************************************************************)
C6_SortedAndTruncated ==
    (HybridCall /\ Returned) =>
        LET candidates == DropLabels(
                CombinedScores(ContentComponent.series, CollabComponent.series,
                               call.content_weight),
                Range(UserHistory(call.user_id)))
            out == result.series
        IN /\ \A i \in 1..(Len(out) - 1) : FLeq(out[i + 1].val, out[i].val)
           /\ Len(out) = Min(call.res_length, Len(candidates))
           /\ \A i \in DOMAIN candidates :
                 candidates[i].id \notin Ids(out) => FLeq(candidates[i].val, out[Len(out)].val)

(***************************************************************************)
(* C7: a call of recommmend_videos_for_user or recommend_videos_by_users   *)
(* with a user_id that is no row label of the user-item matrix ends in an  *)
(* error, whatever the id: negative, or a valid row position.              *)
(***************************************************************************)
C7_UnknownUserRaises ==
    (/\ call.fn \in {"recommmend_videos_for_user", "recommend_videos_by_users"}
     /\ call.user_id \notin KnownUsers) => result.err # "none"

\* A hybrid call with an id that is a row position of the similarity array
\* and no known user.
C7_Witness ==
    /\ HybridCall
    /\ call.user_id \notin KnownUsers
    /\ call.user_id \in 0..(Len(user_item_matrix.index) - 1)
    /\ result.err = "KeyError"

C9_EmptyCollaborativeIsContent ==
    (/\ HybridCall
     /\ CollabComponent = Ok(<<>>)
     /\ ContentComponent.err = "none"
     /\ call.content_weight # Zero) =>
        LET content == Normalize(ContentComponent.series)
        IN /\ Returned
           /\ IdSeq(result.series) =
                  IdSeq(Take(SortValuesDesc(DropLabels(ContentComponent.series,
                                                       History(call.user_id))),
                             call.res_length))
           /\ \A i \in DOMAIN result.series :
                 result.series[i].val =
                     FMul(call.content_weight, ValueOrZero(content, result.series[i].id))

(***************************************************************************)
(* C10: when both components are empty the call returns an empty list,     *)
(* whatever the weight and res_length, and raises no error.                *)
(***************************************************************************)
C10_BothEmptyGivesEmpty ==
    (/\ HybridCall
     /\ CollabComponent = Ok(<<>>)
     /\ ContentComponent = Ok(<<>>)) => result = Ok(<<>>)

\* A hybrid call of a known user whose two components are both empty.
C10_Witness ==
    /\ HybridCall
    /\ call.user_id \in KnownUsers
    /\ CollabComponent = Ok(<<>>)
    /\ ContentComponent = Ok(<<>>)
    /\ call.content_weight = Frac(1, 2)
    /\ result = Ok(<<>>)

(***************************************************************************)
(* C11: f1_score_at_k(p, r) returns 0 when p + r = 0 and the harmonic mean *)
(* 2*p*r / (p + r) of p and r otherwise, for all p, r >= 0; it raises no   *)
(* division by zero, in particular not for p = 0, r = 0.5 or p = r = 0.    *)
(***************************************************************************)
C11_F1IsHarmonicMean ==
    call.fn = "f1_score_at_k" =>
        LET p == call.precision
            r == call.recall
        IN /\ result.err = "none"
           /\ FAdd(p, r) = Zero => result.val = Zero
           /\ FMul(result.val, FAdd(p, r)) = FMul(Frac(2, 1), FMul(p, r))

\* The call f1_score_at_k(0, 0.5), which returned 0.
C11_Witness ==
    /\ call.fn = "f1_score_at_k"
    /\ call.precision = Zero
    /\ call.recall = Frac(1, 2)
    /\ result = Returns(Zero)

(***************************************************************************)
(* C12: precision_at_k(recommended, relevant, k) returns the number of     *)
(* elements recommended and relevant have in common divided by k, for      *)
(* every k > 0; in metrics(K) the divisor is the K requested, also when    *)
(* fewer than K videos were recommended.                                   *)
(***************************************************************************)
C12_PrecisionDividesByK ==
    /\ (call.fn = "precision_at_k" /\ call.k > 0) =>
           /\ result.err = "none"
           /\ FMul(result.val, Frac(call.k, 1)) =
                  Frac(Cardinality(call.recommended \cap call.relevant), 1)
    /\ (call.fn = "metrics" /\ result.err = "none") =>
           FMul(result.precision, Frac(call.K, 1)) =
               Frac(Cardinality(result.recommended \cap result.relevant), 1)

\* A metrics(K) call for which fewer than K videos were recommended, with a
\* feature in common between recommended and relevant.
C12_Witness ==
    /\ call.fn = "metrics"
    /\ result.err = "none"
    /\ Len(recommmend_videos_for_user(call.user_id, call.content_weight, call.K).series)
           < call.K
    /\ Cardinality(result.recommended) # call.K
    /\ result.recommended \cap result.relevant # {}
    /\ result.precision = Frac(Cardinality(result.recommended \cap result.relevant), call.K)

(***************************************************************************)
(* C13: recall_at_k(recommended, relevant) returns the number of common    *)
(* elements divided by the number of relevant elements when relevant is    *)
(* not empty, and 0 when it is empty, without a division by zero; the      *)
(* value lies in [0, 1].                                                   *)
(***************************************************************************)
C13_RecallInUnitInterval ==
    call.fn = "recall_at_k" =>
        /\ result.err = "none"
        /\ call.relevant = {} => result.val = Zero
        /\ FMul(result.val, Frac(Cardinality(call.relevant), 1)) =
               Frac(Cardinality(call.recommended \cap call.relevant), 1)
        /\ FLeq(Zero, result.val) /\ FLeq(result.val, One)

\* A recall_at_k call with an empty relevant set, which returned 0.
C13_Witness ==
    /\ call.fn = "recall_at_k"
    /\ call.relevant = {}
    /\ call.recommended # {}
    /\ result = Returns(Zero)

(***************************************************************************)
(* C14: hit_ratio_at_k(recommended, relevant) returns 1 when the two sets  *)
(* have an element in common and 0 otherwise; so it is 1 exactly when      *)
(* precision_at_k (for any k > 0) and recall_at_k of the same sets are     *)
(* both above 0.                                                           *)
(***************************************************************************)
C14_HitRatioIsIntersection ==
    /\ call.fn = "hit_ratio_at_k" =>
           /\ result.err = "none"
           /\ result.val = (IF call.recommended \cap call.relevant # {} THEN 1 ELSE 0)
           /\ \A k \in 1..MaxRes :
                 (result.val = 1) <=>
                     /\ FLess(Zero, precision_at_k(call.recommended, call.relevant, k).val)
                     /\ FLess(Zero, recall_at_k(call.recommended, call.relevant).val)
    /\ (call.fn = "metrics" /\ result.err = "none") =>
           /\ result.hit_ratio \in {0, 1}
           /\ (result.hit_ratio = 1) <=>
                  (FLess(Zero, result.precision) /\ FLess(Zero, result.recall))

\* A hit_ratio_at_k call on two different sets with a common element, which
\* returned 1.
C14_Witness ==
    /\ call.fn = "hit_ratio_at_k"
    /\ call.recommended # call.relevant
    /\ call.recommended \cap call.relevant # {}
    /\ result = Returns(1)

(***************************************************************************)
(* C15: coverage_at_k(recommended, total_features) returns the number of   *)
(* recommended elements divided by total_features; in metrics(K), where    *)
(* recommended comes from get_features_of_videos and total_features counts *)
(* the distinct features of the item table, the coverage lies in [0, 1].   *)
(***************************************************************************)
C15_CoverageInUnitInterval ==
    /\ (call.fn = "coverage_at_k" /\ call.total_features > 0) =>
           /\ result.err = "none"
           /\ FMul(result.val, Frac(call.total_features, 1)) =
                  Frac(Cardinality(call.recommended), 1)
    /\ call.fn = "metrics" =>
           /\ result.err # "ZeroDivisionError"
           /\ result.err = "none" =>
                 /\ FMul(result.coverage, Frac(total_features, 1)) =
                        Frac(Cardinality(result.recommended), 1)
                 /\ FLeq(Zero, result.coverage) /\ FLeq(result.coverage, One)

\* A metrics(K) call whose recommended videos have some of the features of
\* the item table and not all of them.
C15_Witness ==
    /\ call.fn = "metrics"
    /\ result.err = "none"
    /\ result.recommended # {}
    /\ FLess(result.coverage, One)

(***************************************************************************)
(* C16: no call of recommmend_videos_for_user or of its helpers changes    *)
(* the interaction table, the user-item matrix, the user-similarity array, *)
(* the item table or the content-similarity array: after any sequence of   *)
(* calls they are what they were before the first one.                     *)
(***************************************************************************)
C16_SharedDataUnchanged ==
    [][/\ interactions' = interactions
       /\ user_item_matrix' = user_item_matrix
       /\ user_similarity' = user_similarity
       /\ categories' = categories
       /\ content_based_cosine_sim' = content_based_cosine_sim]_vars

\* A call that returned recommendations for a user with rows in an order
\* other than by ratio, the matrices still being those of the tables.
C16_Witness ==
    /\ HybridCall /\ Returned
    /\ result.series # <<>>
    /\ \E i \in 1..(Len(interactions) - 1) :
          interactions[i].watch_ratio < interactions[i + 1].watch_ratio
    /\ user_item_matrix = PivotTable(interactions)
    /\ user_similarity = CosineSimilarity(user_item_matrix)
    /\ KernelOf(categories, content_based_cosine_sim)

(***************************************************************************)
(* C17: after the normalization step of recommmend_videos_for_user every   *)
(* component that is not empty has maximum exactly 1, each score divided   *)
(* by the maximum of its own component; an empty component is skipped; no  *)
(* call divides by zero, also when a component is not empty and all of its *)
(* scores are 0.                                                           *)
(***************************************************************************)
C17_NormalizedToMaximumOne ==
    (HybridCall /\ CollabComponent.err = "none" /\ ContentComponent.err = "none") =>
        \A component \in {CollabComponent.series, ContentComponent.series} :
            LET normalized == Normalize(component)
            IN /\ component = <<>> => normalized = <<>>
               /\ component # <<>> =>
                     /\ SeriesMax(component) # Zero
                     /\ \A i \in DOMAIN normalized :
                           /\ normalized[i].val = FDiv(component[i].val, SeriesMax(component))
                           /\ FLeq(normalized[i].val, One)
                     /\ \E i \in DOMAIN normalized : normalized[i].val = One

(***************************************************************************)
(* C18: in recommend_videos_by_users(u, nb_top_similar = N) the rows that  *)
(* are averaged are those of the N users most similar to u among the users *)
(* other than u (all of them when there are fewer than N), found by their  *)
(* user id, and the score of a video is the arithmetic mean of their       *)
(* values for it.                                                          *)
(***************************************************************************)
C18_NeighboursAreTopOthers ==
    (/\ call.fn = "recommend_videos_by_users"
     /\ call.user_id \in KnownUsers
     /\ KnownUsers # {call.user_id}) =>
        LET u == call.user_id
            others == KnownUsers \ {u}
            index == user_item_matrix.index
            pos(v) == (CHOOSE i \in DOMAIN index : index[i] = v) - 1
            sim(v) == user_similarity[pos(u)][pos(v)]
            cols == user_item_matrix.columns
            mean(S, c) == Frac(SumOver([v \in S |-> user_item_matrix.values[v][c]],
                                       SortedSeq(S)),
                               Cardinality(S))
            unseen == {c \in Range(cols) : user_item_matrix.values[u][c] = 0}
            expected(S) ==
                Take(Filter(SortValuesDesc([i \in DOMAIN cols |->
                                [id |-> cols[i], val |-> mean(S, cols[i])]]),
                            unseen),
                     call.res_length)
        IN /\ Returned
           /\ \E S \in SUBSET others :
                 /\ Cardinality(S) = Min(NbTopSimilar, Cardinality(others))
                 /\ \A a \in S, b \in others \ S : FLeq(sim(b), sim(a))
                 /\ result.series = expected(S)

\* The sum of the fractions f[x] for x in sequence s.
RECURSIVE FSumOver(_, _)
FSumOver(f, s) == IF s = <<>> THEN Zero ELSE FAdd(f[Head(s)], FSumOver(f, Tail(s)))

(***************************************************************************)
(* C19: the content component of recommmend_videos_for_user is built from  *)
(* the user's most-engaged videos (the sources): for each source the       *)
(* SimilarLen videos most similar to it are looked up, and the score of a  *)
(* video before normalization is the sum, over the sources that list it,   *)
(* of the similarity between that source and the video.                    *)
(***************************************************************************)
C19_ContentScoresAreSums ==
    LET u == call.user_id
        videos == {categories[i].video_id : i \in DOMAIN categories}
        sources == Range(UserHistory(u))
        row(v) == CHOOSE i \in DOMAIN categories : categories[i].video_id = v
        sim(s, v) == Frac(content_based_cosine_sim[row(s) - 1][row(v) - 1], MaxSim)
        TopLists(s) ==
            {T \in SUBSET (videos \ {s}) :
                /\ Cardinality(T) = Min(SimilarLen, Cardinality(videos) - 1)
                /\ \A a \in T, b \in videos \ (T \cup {s}) : FLeq(sim(s, b), sim(s, a))}
        content == ContentComponent
    IN (HybridCall /\ u \in KnownUsers /\ sources \subseteq videos) =>
           /\ content.err = "none"
           /\ \E top \in [sources -> SUBSET videos] :
                 /\ \A s \in sources : top[s] \in TopLists(s)
                 /\ Ids(content.series) = UNION {top[s] : s \in sources}
                 /\ \A i \in DOMAIN content.series :
                       LET v == content.series[i].id
                           listing == {s \in sources : v \in top[s]}
                       IN content.series[i].val =
                              FSumOver([s \in listing |-> sim(s, v)], SortedSeq(listing))

(***************************************************************************)
(* C20: get_most_watched_videos_by_user_id(df, u, head_count) returns rows *)
(* of user u only, at most head_count of them, in non-increasing order of  *)
(* watch_ratio; a row of u is left out only when head_count rows are       *)
(* returned, and its ratio is no greater than the smallest one returned;   *)
(* a user without rows gets an empty table.                                *)
(***************************************************************************)
C20_MostWatchedRows ==
    call.fn = "get_most_watched_videos_by_user_id" =>
        LET df == IF call.df = "interactions" THEN interactions ELSE test_df
            mine == {df[i] : i \in {j \in DOMAIN df : df[j].user_id = call.user_id}}
            rows == result.val
            left == mine \ Range(rows)
        IN /\ result.err = "none"
           /\ Range(rows) \subseteq mine
           /\ Len(rows) = Cardinality(Range(rows))
           /\ Len(rows) <= call.head_count
           /\ \A i \in 1..(Len(rows) - 1) : rows[i + 1].watch_ratio <= rows[i].watch_ratio
           /\ left # {} => Len(rows) = call.head_count
           /\ \A row \in left : row.watch_ratio <= rows[Len(rows)].watch_ratio
           /\ mine = {} => rows = <<>>

\* A call on a table with a lower ratio ahead of a higher one for the user,
\* which returned the row of the higher ratio and left the other out.
C20_Witness ==
    /\ call.fn = "get_most_watched_videos_by_user_id"
    /\ call.head_count = 1
    /\ LET df == IF call.df = "interactions" THEN interactions ELSE test_df
       IN /\ Len(df) = 2
          /\ df[1].user_id = call.user_id /\ df[2].user_id = call.user_id
          /\ df[1].watch_ratio < df[2].watch_ratio
          /\ result = Returns(<<df[2]>>)

(***************************************************************************)
(* C21: when a step of a recommmend_videos_for_user call fails, that is    *)
(* the collaborative step raises, or recommend_similar_videos raises for a *)
(* video of user_history (one without a row in the item table, for         *)
(* example), the whole call fails and returns no list.                     *)
(***************************************************************************)
C21_FailureAbortsCall ==
    HybridCall =>
        LET history == Range(UserHistory(call.user_id))
            rowless == {h \in history :
                           \A i \in DOMAIN categories : categories[i].video_id # h}
            failed == \/ CollabComponent.err # "none"
                      \/ rowless # {}
                      \/ \E h \in history :
                             recommend_similar_videos(h, SimilarLen).err # "none"
        IN failed => result.err # "none" /\ result.series = <<>>

\* A call whose collaborative step gave a list and whose history holds a video
\* with a row in the item table and one without: the call raised.
C21_Witness ==
    /\ HybridCall
    /\ CollabComponent.err = "none" /\ CollabComponent.series # <<>>
    /\ \E h \in Range(UserHistory(call.user_id)) :
           \A i \in DOMAIN categories : categories[i].video_id # h
    /\ \E h \in Range(UserHistory(call.user_id)) :
           /\ recommend_similar_videos(h, SimilarLen).err = "none"
           /\ recommend_similar_videos(h, SimilarLen).series # <<>>
    /\ result = Raise("IndexError")

\* The sequence s without the repetitions of an element after its first place.
FirstOccurrences(s) ==
    LET first == {i \in DOMAIN s : \A j \in 1..(i - 1) : s[j] # s[i]}
        places == SortedSeq(first)
    IN [k \in DOMAIN places |-> s[places[k]]]

(***************************************************************************)
(* C22: the history list a recommmend_videos_for_user call expands into    *)
(* the content component holds each video id at most once, so that a       *)
(* watched video adds its similar videos to the content scores once,       *)
(* however many interaction rows the user has for it.                      *)
(***************************************************************************)
C22_HistoryHoldsEachItemOnce ==
    HybridCall /\ CollabComponent.err = "none" =>
        LET user_history == UserHistory(call.user_id)
        IN /\ \A i, j \in DOMAIN user_history :
                  i # j => user_history[i] # user_history[j]
           /\ ContentComponent = ContentScores(FirstOccurrences(user_history), <<>>)

(***************************************************************************)
(* C23: recommend_similar_videos(v, res_length), for a video v of the item *)
(* table, never returns v itself and returns exactly the res_length videos *)
(* other than v (all of them when there are fewer) with the highest        *)
(* content similarity to v, each with that similarity, in non-increasing   *)
(* order; also when another video has the same feature set as v and when   *)
(* the row labels of the item table differ from the row positions.         *)
(***************************************************************************)
C23_SimilarVideosAreTopOthers ==
    /\ call.fn = "recommend_similar_videos"
    /\ \E i \in DOMAIN categories : categories[i].video_id = call.video_id
    => LET position(v) == CHOOSE i \in DOMAIN categories : categories[i].video_id = v
           similarity(v, x) ==
               Frac(content_based_cosine_sim[position(v) - 1][position(x) - 1], MaxSim)
           v == call.video_id
           others == {categories[i].video_id : i \in DOMAIN categories} \ {v}
           s == result.series
       IN /\ result.err = "none"
          /\ v \notin Ids(s)
          /\ Ids(s) \subseteq others
          /\ Len(s) = Cardinality(Ids(s))
          /\ Len(s) = Min(call.res_length, Cardinality(others))
          /\ \A i \in DOMAIN s : s[i].val = similarity(v, s[i].id)
          /\ \A i \in 1..(Len(s) - 1) : FLeq(s[i + 1].val, s[i].val)
          /\ \A x \in others \ Ids(s) : \A i \in DOMAIN s : FLeq(similarity(v, x), s[i].val)

(***************************************************************************)
(* C24: the list returned by recommend_videos_by_users(u, ...) holds no    *)
(* video whose cell in row u of the user-item matrix is not 0, has at most *)
(* res_length entries in non-increasing order of mean engagement, and      *)
(* treats a video that u has rows of ratio 0 only for as unseen: every     *)
(* video with a 0 cell is a candidate, so the list is shorter than         *)
(* res_length only when it holds all of them.                              *)
(***************************************************************************)
C24_CollabExcludesWatched ==
    call.fn = "recommend_videos_by_users" /\ Returned =>
        LET row == user_item_matrix.values[call.user_id]
            unseen == {v \in Range(user_item_matrix.columns) : row[v] = 0}
            s == result.series
        IN /\ \A i \in DOMAIN s : row[s[i].id] = 0
           /\ Len(s) = Cardinality(Ids(s))
           /\ Len(s) <= call.res_length
           /\ \A i \in 1..(Len(s) - 1) : FLeq(s[i + 1].val, s[i].val)
           /\ Len(s) = Min(call.res_length, Cardinality(unseen))

\* A call for a user with a watched video (left out) and a video with rows of
\* ratio 0 only (returned).
C24_Witness ==
    /\ call.fn = "recommend_videos_by_users" /\ Returned
    /\ \E i \in DOMAIN interactions :
           /\ interactions[i].user_id = call.user_id
           /\ interactions[i].watch_ratio > 0
           /\ interactions[i].video_id \notin Ids(result.series)
    /\ \E i \in DOMAIN interactions :
           /\ interactions[i].user_id = call.user_id
           /\ interactions[i].watch_ratio = 0
           /\ user_item_matrix.values[call.user_id][interactions[i].video_id] = 0
           /\ interactions[i].video_id \in Ids(result.series)

(***************************************************************************)
(* C25: whatever res_length is asked, recommmend_videos_for_user returns   *)
(* at most CollabLen + HistoryLen * SimilarLen videos (50 + 20 * 10 in the *)
(* source): every returned video is one of the at most CollabLen videos of *)
(* the collaborative component or one of the at most HistoryLen *          *)
(* SimilarLen videos of the content component, so the list can be shorter  *)
(* than res_length while the item table holds further unseen videos.       *)
(***************************************************************************)
C25_AtMostCappedCandidates ==
    HybridCall /\ Returned =>
        /\ Len(CollabComponent.series) <= CollabLen
        /\ Len(ContentComponent.series) <= HistoryLen * SimilarLen
        /\ Ids(result.series) \subseteq
               Ids(CollabComponent.series) \cup Ids(ContentComponent.series)
        /\ Len(result.series) = Cardinality(Ids(result.series))
        /\ Len(result.series) <= CollabLen + HistoryLen * SimilarLen

\* A call that returned fewer videos than asked although the item table holds
\* a video the user has no row for that is not in the list, and a video with a
\* 0 cell for the user stayed out of the collaborative component, which is full.
C25_Witness ==
    /\ HybridCall /\ Returned
    /\ Len(result.series) < call.res_length
    /\ \E i \in DOMAIN categories :
           /\ categories[i].video_id \notin History(call.user_id)
           /\ categories[i].video_id \notin Ids(result.series)
    /\ Len(CollabComponent.series) = CollabLen
    /\ \E v \in Range(user_item_matrix.columns) :
           /\ user_item_matrix.values[call.user_id][v] = 0
           /\ v \notin Ids(CollabComponent.series)

(***************************************************************************)
(* C26: in metrics(K), where recommended and relevant are the feature sets *)
(* of the K recommended videos and of the K most watched videos of the     *)
(* evaluation table, the precision is in [0, 1].                           *)
(***************************************************************************)
C26_PipelinePrecisionInUnitInterval ==
    call.fn = "metrics" /\ result.err = "none" =>
        /\ ~IsNaN(result.precision)
        /\ FLeq(Zero, result.precision)
        /\ FLeq(result.precision, One)

(***************************************************************************)
(* C27: for a content_weight in [0, 1] and inputs that are not negative,   *)
(* every score recommmend_videos_for_user returns is a number in [0, 1],   *)
(* never NaN, and a video has score 1 only if it holds the maximum of      *)
(* every component of non-zero weight.                                     *)
(***************************************************************************)
C27_ScoresInUnitInterval ==
    HybridCall /\ Returned =>
        LET w == call.content_weight
            top(component, k) ==
                /\ k \in Ids(component)
                /\ ValueAt(component, k) = SeriesMax(component)
        IN \A i \in DOMAIN result.series :
               LET e == result.series[i]
               IN /\ ~IsNaN(e.val)
                  /\ FLeq(Zero, e.val) /\ FLeq(e.val, One)
                  /\ e.val = One =>
                        /\ w # Zero => top(ContentComponent.series, e.id)
                        /\ w # One => top(CollabComponent.series, e.id)

=============================================================================
